---- MODULE Spec2Model ----
(***************************************************************************)
(* A model of asyncio_stripe/stripe.py: Client.__init__, Client._req       *)
(* (parameter encoding, the request, the body read and the classification  *)
(* of the response), the endpoint methods of Client, StripeError.__init__  *)
(* and convert_json_response; one operation at a time, and several         *)
(* operations in flight together on one client.                            *)
(*                                                                         *)
(* Python values are records [t, s, items] of one shape:                   *)
(*   t      the Python type: "str" "int" "bool" "none" "bytes" "dict"      *)
(*          "list"                                                         *)
(*   s      str(v) of a scalar ("True"/"False" for a bool, "None" for None,*)
(*          the digits of an int, the content of a str or bytes)           *)
(*   items  the entries of a dict in insertion order, each [k, v]; the     *)
(*          elements of a list, each [k |-> "", v]                         *)
(***************************************************************************)
EXTENDS Naturals, Sequences, FiniteSets, TLC

VARIABLES
    made,      \* the arguments the client was constructed with
    client,    \* the Client instance: _auth, _url, _version
    pc,        \* position of the operation: "idle", "awaiting_request",
               \* "awaiting_body", "done"
    endpoint,  \* the endpoint method called, "" for a call of _req itself
    args,      \* the caller's arguments by name, as they were passed
    held,      \* the caller's argument objects as they stand now
    method,    \* _req's method argument, as the caller spelled it
    page,      \* _req's page argument
    given,     \* the params mapping as the caller passed it
    params,    \* _req's params mapping (lines 87-100 rewrite it in place)
    flat,      \* params as it stood after the flattening loop (lines 91-94)
    sent,      \* the requests handed to session.request, in order
    resp,      \* the response the transport produced
    reads,     \* how many times the body of the response was asked for
    body,      \* the body as read at lines 109-112
    outcome,   \* how the operation ended
    ops,       \* the operations in flight together on the client: for each
               \* its position and the locals of its call of _req
    conv_in,   \* argument of a direct call of convert_json_response
    conv_out   \* its result

vars == <<made, client, pc, endpoint, args, held, method, page, given, params, flat,
          sent, resp, reads, body, outcome, ops, conv_in, conv_out>>

cfgVars == <<made, client>>

\* the arguments of _req and what it makes of them before the request
callVars == <<endpoint, args, held, method, page, given, params, flat>>

reqVars == <<pc, callVars, sent, resp, reads, body, outcome>>

convVars == <<conv_in, conv_out>>

----------------------------------------------------------------------------
(* Bounds of the model *)

\* the largest number of nodes (scalars, resources, lists, envelopes) of a
\* generated JSON value
MaxNodes == 4

\* the largest number of top-level entries of a generated params mapping
MaxParams == 2

\* the number of operations in flight together on one client
MaxOps == 2

----------------------------------------------------------------------------
(* Python values *)

Str(s) == [t |-> "str", s |-> s, items |-> <<>>]

Int(s) == [t |-> "int", s |-> s, items |-> <<>>]

Bool(b) == [t |-> "bool", s |-> IF b THEN "True" ELSE "False", items |-> <<>>]

None == [t |-> "none", s |-> "None", items |-> <<>>]

Bytes(s) == [t |-> "bytes", s |-> s, items |-> <<>>]

Dict(entries) == [t |-> "dict", s |-> "", items |-> entries]

List(elems) ==
    [t |-> "list", s |-> "",
     items |-> [i \in 1..Len(elems) |-> [k |-> "", v |-> elems[i]]]]

E(key, val) == [k |-> key, v |-> val]

Elems(l) == [i \in 1..Len(l.items) |-> l.items[i].v]

\* bool(v): the truth value Python gives v in `if v` and `not v`
Truthy(v) ==
    CASE v.t = "none" -> FALSE
      [] v.t = "bool" -> v.s = "True"
      [] v.t = "int" -> v.s # "0"
      [] v.t \in {"str", "bytes"} -> v.s # ""
      [] OTHER -> v.items # <<>>

\* key in d, for a dict d
HasKey(d, key) == \E i \in 1..Len(d.items) : d.items[i].k = key

\* d.get(key, default), for a dict d
DictGet(d, key, default) ==
    IF HasKey(d, key)
    THEN d.items[CHOOSE i \in 1..Len(d.items) : d.items[i].k = key].v
    ELSE default

KeysOf(d) == {d.items[i].k : i \in 1..Len(d.items)}

\* d[key] = val: an existing key keeps its place, a new one goes last
SetItem(entries, key, val) ==
    IF \E i \in 1..Len(entries) : entries[i].k = key
    THEN [i \in 1..Len(entries) |->
            IF entries[i].k = key THEN E(key, val) ELSE entries[i]]
    ELSE Append(entries, E(key, val))

\* del d[key]
DelItem(entries, key) == SelectSeq(entries, LAMBDA e : e.k # key)

\* str.lower() of the strings str(v) yields for a bool
Lower(s) ==
    CASE s = "True" -> "true"
      [] s = "False" -> "false"
      [] OTHER -> s

\* str.upper() of a method name
Upper(s) ==
    CASE s = "get" -> "GET"
      [] s = "post" -> "POST"
      [] s = "delete" -> "DELETE"
      [] OTHER -> s

\* '%s' % (v,) of a scalar
PyStr(v) == IF v.t = "bytes" THEN "b'" \o v.s \o "'" ELSE v.s

----------------------------------------------------------------------------
(* The client and the address of a request, lines 52-85 *)

DEFAULT_VERSION == "2017-02-14"

LAST_VERSION == "2018-11-08"

\* the base address every client is constructed with
BaseUrl == "https://api.stripe.com/v1"

\* aiohttp.BasicAuth(login): the password defaults to the empty string
BasicAuth(login) == [login |-> login, password |-> ""]

\* the version argument of a construction that passes none
NotGiven == "(not given)"

\* Client.__init__; the parameter version defaults to DEFAULT_VERSION
Client(pk, version) ==
    [_auth |-> BasicAuth(pk), _url |-> BaseUrl,
     _version |-> IF version = NotGiven THEN DEFAULT_VERSION ELSE version]

\* A page is the sequence of its pieces: each "/" is a piece of its own and
\* the other pieces hold no "/".
\* a variant of LStrip that strips nothing
LStrip_Keep(pg) == pg

\* page.lstrip('/'): every leading "/" is dropped
RECURSIVE LStrip(_)
LStrip(pg) ==
    IF pg # <<>> /\ Head(pg) = "/" THEN LStrip(Tail(pg)) ELSE pg

\* the string a sequence of pieces spells
RECURSIVE Join(_)
Join(pg) == IF pg = <<>> THEN "" ELSE Head(pg) \o Join(Tail(pg))

\* line 81
Url(c, pg) == c._url \o "/" \o Join(LStrip(pg))

\* lines 82-85
Headers(c) ==
    [content_type |-> "application/x-www-form-urlencoded",
     stripe_version |-> c._version]

----------------------------------------------------------------------------
(* Parameter encoding, Client._req lines 87-100 *)

\* a variant of SubKey that joins the names with a dot
SubKey_Dotted(key, subkey) == key \o "." \o subkey

\* '%s[%s]' % (key, subkey)
SubKey(key, subkey) == key \o "[" \o subkey \o "]"

\* a variant of InsertSub that stores the first entry of the nested mapping
\* only
InsertSub_FirstOnly(entries, key, inner) ==
    IF inner = <<>> THEN entries
    ELSE SetItem(entries, SubKey(key, Head(inner).k), Head(inner).v)

\* lines 92-93: every entry of the nested mapping is stored under key[subkey]
RECURSIVE InsertSub(_, _, _)
InsertSub(entries, key, inner) ==
    IF inner = <<>> THEN entries
    ELSE InsertSub(SetItem(entries, SubKey(key, Head(inner).k), Head(inner).v),
                   key, Tail(inner))

\* line 91: the keys to flatten, fixed before the loop starts
DictKeys(entries) ==
    LET ds == SelectSeq(entries, LAMBDA e : e.v.t = "dict")
    IN  [i \in 1..Len(ds) |-> ds[i].k]

\* a variant of FlattenLoop that leaves out `del params[key]`
RECURSIVE FlattenLoop_KeepsKey(_, _)
FlattenLoop_KeepsKey(entries, keys) ==
    IF keys = <<>> THEN [ok |-> TRUE, entries |-> entries]
    ELSE LET key == Head(keys)
             cur == DictGet(Dict(entries), key, None)
         IN  IF cur.t # "dict"
             THEN [ok |-> FALSE, entries |-> entries]
             ELSE FlattenLoop_KeepsKey(InsertSub(entries, key, cur.items),
                                       Tail(keys))

\* lines 91-94. params[key] is read when its turn comes: an earlier turn may
\* have stored a value under the same name, and .items() of a value that is
\* no dict raises AttributeError.
RECURSIVE FlattenLoop(_, _)
FlattenLoop(entries, keys) ==
    IF keys = <<>> THEN [ok |-> TRUE, entries |-> entries]
    ELSE LET key == Head(keys)
             cur == DictGet(Dict(entries), key, None)
         IN  IF cur.t # "dict"
             THEN [ok |-> FALSE, entries |-> entries]
             ELSE FlattenLoop(DelItem(InsertSub(entries, key, cur.items), key),
                              Tail(keys))

\* a variant of Flatten that takes the keys to flatten a second time, after
\* the loop has stored the inner entries
Flatten_Again(entries) ==
    LET once == FlattenLoop(entries, DictKeys(entries))
    IN  IF once.ok THEN FlattenLoop(once.entries, DictKeys(once.entries))
        ELSE once

\* lines 90-94
Flatten(entries) == FlattenLoop(entries, DictKeys(entries))

\* a variant of BoolsToStrings that tests isinstance(v, int), which holds of
\* a bool and of a number alike
BoolsToStrings_AnyInt(entries) ==
    [i \in 1..Len(entries) |->
        IF entries[i].v.t \in {"bool", "int"}
        THEN E(entries[i].k, Str(Lower(entries[i].v.s)))
        ELSE entries[i]]

\* lines 97-100: params.update({k: str(v).lower() ... if isinstance(v, bool)})
BoolsToStrings(entries) ==
    [i \in 1..Len(entries) |->
        IF entries[i].v.t = "bool"
        THEN E(entries[i].k, Str(Lower(entries[i].v.s)))
        ELSE entries[i]]

----------------------------------------------------------------------------
(* Response normalization, convert_json_response lines 417-422 *)

\* resp.get('object', '') == 'list', for a dict resp
IsListEnvelope(v) ==
    v.t = "dict" /\ DictGet(v, "object", Str("")) = Str("list")

\* what `for r in x` yields, for the values a `data` field holds here: the
\* elements of a list, the keys of a dict
IterElems(x) ==
    IF x.t = "list" THEN Elems(x)
    ELSE [i \in 1..Len(x.items) |-> Str(x.items[i].k)]

\* `for r in x` raises TypeError for a value that is not iterable
Iterable(x) == x.t \in {"list", "dict"}

\* the exception convert_json_response(v) raises, "" when it returns:
\* resp['data'] raises KeyError for an envelope without `data`
RECURSIVE ConvertError(_)
FirstError(vs) ==
    IF \A i \in 1..Len(vs) : ConvertError(vs[i]) = "" THEN ""
    ELSE ConvertError(vs[CHOOSE i \in 1..Len(vs) :
            /\ ConvertError(vs[i]) # ""
            /\ \A j \in 1..(i - 1) : ConvertError(vs[j]) = ""])

ConvertError(v) ==
    IF v.t = "list" THEN FirstError(Elems(v))
    ELSE IF IsListEnvelope(v)
    THEN IF ~HasKey(v, "data") THEN "KeyError"
         ELSE IF ~Iterable(DictGet(v, "data", None)) THEN "TypeError"
         ELSE FirstError(IterElems(DictGet(v, "data", None)))
    ELSE ""

\* a variant of convert_json_response that returns a sequence as it is
RECURSIVE convert_json_response_FlatList(_)
convert_json_response_FlatList(v) ==
    IF v.t = "list" THEN v
    ELSE IF IsListEnvelope(v)
    THEN LET data == IterElems(DictGet(v, "data", None))
         IN  List([i \in 1..Len(data) |->
                    convert_json_response_FlatList(data[i])])
    ELSE v

\* a variant of convert_json_response that also normalizes the fields of a
\* resource object
RECURSIVE convert_json_response_Fields(_)
convert_json_response_Fields(v) ==
    IF v.t = "list"
    THEN List([i \in 1..Len(v.items) |->
                convert_json_response_Fields(v.items[i].v)])
    ELSE IF IsListEnvelope(v)
    THEN LET data == IterElems(DictGet(v, "data", None))
         IN  List([i \in 1..Len(data) |-> convert_json_response_Fields(data[i])])
    ELSE IF v.t = "dict"
    THEN Dict([i \in 1..Len(v.items) |->
                E(v.items[i].k, convert_json_response_Fields(v.items[i].v))])
    ELSE v

RECURSIVE convert_json_response(_)
convert_json_response(v) ==
    IF v.t = "list"
    THEN List([i \in 1..Len(v.items) |-> convert_json_response(v.items[i].v)])
    ELSE IF IsListEnvelope(v)
    THEN LET data == IterElems(DictGet(v, "data", None))
         IN  List([i \in 1..Len(data) |-> convert_json_response(data[i])])
    ELSE v

----------------------------------------------------------------------------
(* StripeError.__init__, lines 9-41 *)

ErrorKeys == <<"type", "charge", "message", "code", "decline_code", "param">>

NoFields ==
    [type |-> None, charge |-> None, message |-> None, code |-> None,
     decline_code |-> None, param |-> None]

\* lines 18-19: the value tested at line 20
ErrOf(b) == IF b.t = "dict" THEN DictGet(b, "error", Dict(<<>>)) ELSE Dict(<<>>)

\* lines 20-26 call err.get on whatever truthy value `error` holds
StripeErrorRaises(b) == Truthy(ErrOf(b)) /\ ErrOf(b).t # "dict"

\* lines 10-26
StripeErrorFields(b) ==
    LET err == ErrOf(b)
    IN  IF Truthy(err)
        THEN [type |-> DictGet(err, "type", Str("")),
              charge |-> DictGet(err, "charge", Str("")),
              message |-> DictGet(err, "message", Str("")),
              code |-> DictGet(err, "code", Str("")),
              decline_code |-> DictGet(err, "decline_code", Str("")),
              param |-> DictGet(err, "param", Str(""))]
        ELSE NoFields

\* lines 28-32: addstr reads the attribute named key; `present` tells whether
\* the instance has it
AddStr(present, v, pre, post) ==
    IF present /\ Truthy(v) THEN pre \o PyStr(v) \o post ELSE ""

\* lines 34-41: the summary; self.decline is never assigned
StripeErrorMessage(status, f) ==
    status \o ":"
        \o AddStr(TRUE, f.type, " ", ":")
        \o AddStr(TRUE, f.charge, " charge: ", "")
        \o AddStr(TRUE, f.message, " message: \"", "\"")
        \o AddStr(TRUE, f.code, " code: ", "")
        \o AddStr(FALSE, None, " decline: ", "")
        \o AddStr(TRUE, f.param, " param: ", "")

----------------------------------------------------------------------------
(* The classification of a response, Client._req lines 114-125 *)

Outcome(kind, value, http_code, fields, message) ==
    [kind |-> kind, value |-> value, http_code |-> http_code,
     fields |-> fields, message |-> message]

Pending == Outcome("pending", None, "", NoFields, "")

Raised(kind, message) == Outcome(kind, None, "", NoFields, message)

Returned(value) == Outcome("returned", value, "", NoFields, "")

\* 'object' in s for the strings of the model
StrHasObject(s) == s \in {"object", "my object"}

\* what `'object' in b` does: "yes", "no", or the exception it raises
ObjectIn(b) ==
    CASE b.t = "dict" -> IF HasKey(b, "object") THEN "yes" ELSE "no"
      [] b.t = "list" ->
            IF \E i \in 1..Len(b.items) : b.items[i].v = Str("object")
            THEN "yes" ELSE "no"
      [] b.t = "str" -> IF StrHasObject(b.s) THEN "yes" ELSE "no"
      [] OTHER -> "TypeError"

\* line 115
RaiseStripeError(status, b) ==
    IF StripeErrorRaises(b)
    THEN Raised("AttributeError", "object has no attribute 'get'")
    ELSE Outcome("StripeError", None, status, StripeErrorFields(b),
                 StripeErrorMessage(status, StripeErrorFields(b)))

\* lines 117-120
ClassifyDelete(b) ==
    IF b.t # "dict"
    THEN Raised("AttributeError", "object has no attribute 'get'")
    ELSE IF ~Truthy(DictGet(b, "deleted", Bool(FALSE)))
    THEN Raised("DeletionError",
                "Failed to delete " \o PyStr(DictGet(b, "id", None)))
    ELSE Returned(None)

\* lines 122-125
ClassifyObject(b) ==
    IF ObjectIn(b) = "TypeError"
    THEN Raised("TypeError", "argument is not iterable")
    ELSE IF ObjectIn(b) = "no"
    \* the message ends with '%s' % (body,): the value field holds that body
    THEN Outcome("ParseError", b, "", NoFields,
                 "Stripe response missing \"object\"")
    ELSE IF ConvertError(b) # ""
    THEN Raised(ConvertError(b), "")
    ELSE Returned(convert_json_response(b))

\* lines 114-125
Classify(m, status, b) ==
    IF status # "200" THEN RaiseStripeError(status, b)
    ELSE IF Upper(m) = "DELETE" THEN ClassifyDelete(b)
    ELSE ClassifyObject(b)

\* line 109: r.headers.get('Content-Type', '').startswith('application/json')
IsJson(ctype) ==
    ctype \in {"application/json", "application/json; charset=utf-8"}


----------------------------------------------------------------------------
(* The inputs the model draws from *)

Methods == {"get", "post", "delete"}

\* a resource object
Charge == Dict(<<E("object", Str("charge")), E("id", Str("ch_1"))>>)

\* a list envelope
Envelope(elems) ==
    Dict(<<E("object", Str("list")), E("has_more", Bool(FALSE)),
           E("data", List(elems))>>)

\* a resource object that holds a list envelope in one of its fields
Customer ==
    Dict(<<E("object", Str("customer")), E("sources", Envelope(<<Charge>>))>>)

Atoms == {Int("1"), Charge, Customer}

\* the JSON values of exactly n nodes built from Atoms, lists and envelopes;
\* SeqsOfSize(m): the sequences of such values that hold m nodes together;
\* SeqsFrom(m, j): those whose first value has at most j nodes
RECURSIVE ValuesOfSize(_), SeqsOfSize(_), SeqsFrom(_, _)
SeqsFrom(m, j) ==
    IF j = 0 THEN {}
    ELSE {<<v>> \o r : v \in ValuesOfSize(j), r \in SeqsOfSize(m - j)}
            \cup SeqsFrom(m, j - 1)

SeqsOfSize(m) == IF m = 0 THEN {<<>>} ELSE SeqsFrom(m, m)

ValuesOfSize(n) ==
    (IF n = 1 THEN Atoms ELSE {})
        \cup {List(q) : q \in SeqsOfSize(n - 1)}
        \cup {Envelope(q) : q \in SeqsOfSize(n - 1)}

\* the JSON values of at most n nodes
RECURSIVE ValuesUpTo(_)
ValuesUpTo(n) == IF n = 0 THEN {} ELSE ValuesOfSize(n) \cup ValuesUpTo(n - 1)

JsonValues == ValuesUpTo(MaxNodes)

\* the subsets of the entries of a sequence, each in the sequence's order
RECURSIVE SubSeqs(_)
SubSeqs(q) ==
    IF q = <<>> THEN {<<>>}
    ELSE LET rest == SubSeqs(Tail(q))
         IN  rest \cup {<<Head(q)>> \o r : r \in rest}

\* bodies of the DELETE endpoints
DeleteBodies ==
    {Dict(a \o b \o c) :
        a \in {<<>>, <<E("deleted", Bool(TRUE))>>, <<E("deleted", Bool(FALSE))>>},
        b \in {<<>>, <<E("id", Str("cus_X"))>>},
        c \in {<<>>, <<E("object", Str("customer"))>>}}

\* bodies with an `error` mapping holding any of the six fields
ErrorBodies ==
    {Dict(<<E("error", Dict(q))>>) :
        q \in SubSeqs(<<E("type", Str("card_error")), E("charge", Str("ch_1")),
                        E("message", Str("msg")), E("code", Str("missing")),
                        E("decline_code", Str("fraud")),
                        E("param", Str("source"))>>)}

\* bodies whose `error` entry is no mapping, and other JSON documents
OddBodies ==
    {Dict(<<E("error", Str("oops"))>>), Dict(<<E("error", Str(""))>>),
     Dict(<<E("error", None)>>), Dict(<<E("error", List(<<Str("x")>>))>>),
     Dict(<<E("amount", Int("103"))>>),
     Dict(<<E("object", Str("list"))>>),
     Dict(<<E("object", Str("list")), E("data", None)>>),
     List(<<Str("object")>>), List(<<Str("x")>>), List(<<Envelope(<<>>)>>),
     Str("my object"), Str("x"), Int("5"), Bool(TRUE), None}

JsonBodies == JsonValues \cup DeleteBodies \cup ErrorBodies \cup OddBodies

Statuses == {"200", "201", "204", "404", "500"}

JsonTypes == {"application/json", "application/json; charset=utf-8"}

OtherTypes == {"", "text/html"}

RawBodies == {"", "<html>"}

Response(status, ctype, raw, json) ==
    [status |-> status, ctype |-> ctype, raw |-> raw, json |-> json]

NoResponse == Response("", "", "", None)

Responses ==
    {Response(st, ct, "", b) : st \in Statuses, ct \in JsonTypes, b \in JsonBodies}
        \cup {Response(st, ct, raw, None) :
                st \in Statuses, ct \in OtherTypes, raw \in RawBodies}

FewResponses ==
    {Response("200", "application/json", "", Charge),
     Response("404", "application/json", "",
              Dict(<<E("error", Dict(<<E("type", Str("card_error"))>>))>>))}

\* responses to the calls of the endpoint methods
EndpointResponses ==
    FewResponses \cup
        {Response("200", "application/json", "",
                  Dict(<<E("deleted", Bool(TRUE)), E("id", Str("cus_X"))>>)),
         Response("200", "application/json", "", Envelope(<<Charge>>)),
         Response("200", "text/html", "<html>", None)}

\* the calls and responses of the operations in flight together
ConcurrentMethods == {"post", "delete"}

ConcurrentParams ==
    {None, Dict(<<E("metadata", Dict(<<E("a", Bool(TRUE))>>))>>)}

ConcurrentResponses ==
    FewResponses \cup
        {Response("200", "application/json", "",
                  Dict(<<E("deleted", Bool(TRUE)), E("id", Str("cus_X"))>>))}

\* values of the entries of a nested mapping
InnerValues == {Int("1"), Bool(FALSE), Dict(<<E("z", Bool(TRUE))>>)}

InnerMappings ==
    {Dict(<<>>)}
        \cup {Dict(<<E("a", v)>>) : v \in InnerValues}
        \cup {Dict(<<E("a", v), E("b", w)>>) : v \in InnerValues, w \in InnerValues}

ParamKeys == {"k", "k[a]", "f"}

ParamValues ==
    {Str("usd"), Int("0"), Int("1"), Bool(TRUE), Bool(FALSE)} \cup InnerMappings

\* the entry sequences of at most n entries with distinct keys
RECURSIVE ParamSeqs(_)
ParamSeqs(n) ==
    IF n = 0 THEN {<<>>}
    ELSE LET shorter == ParamSeqs(n - 1)
         IN  shorter \cup
             {Append(c[1], E(c[2], c[3])) :
                c \in {c \in shorter \X ParamKeys \X ParamValues :
                        \A i \in 1..Len(c[1]) : c[1][i].k # c[2]}}

ParamMappings == {None} \cup {Dict(q) : q \in ParamSeqs(MaxParams)}

\* the secret and version arguments clients are constructed with
Secrets == {"secret_key", "sk_test_1"}

Versions == {NotGiven, LAST_VERSION, "2015-10-16 "}

Clients == Secrets \X Versions

FewClients == {<<"secret_key", DEFAULT_VERSION>>}

FewPages == {<<"/", "charges">>}

\* identifiers callers pass: '%s' % (id,) formats a number as its digits
Ids == {Str("ch_1"), Int("7")}

Amounts == {Int("103")}

Currencies == {Str("usd")}

\* the source argument of create_card: a token or a card dictionary
Sources ==
    {Str("tok_1"),
     Dict(<<E("object", Str("card")), E("number", Str("4242"))>>)}

\* the metadata argument of create_card and update_refund
Metadatas ==
    {None, Dict(<<>>), Dict(<<E("a", Bool(TRUE))>>),
     Dict(<<E("a", Dict(<<E("z", Int("1"))>>))>>)}

\* keyword arguments of the endpoint methods
Kwds ==
    {Dict(<<>>),
     Dict(<<E("limit", Int("3"))>>),
     Dict(<<E("capture", Bool(FALSE))>>),
     Dict(<<E("metadata", Dict(<<E("a", Bool(TRUE))>>))>>),
     Dict(<<E("amount", Int("5")), E("reason", Str("fraudulent"))>>),
     Dict(<<E("reason", Str("duplicate")), E("charge", Str("ch_2"))>>),
     Dict(<<E("k", Dict(<<E("a", Int("1"))>>)),
            E("k[a]", Dict(<<E("y", Int("2"))>>))>>)}

FewParams ==
    {None,
     Dict(<<E("amount", Int("103")), E("metadata", Dict(<<E("a", Str("hi"))>>)),
            E("flag", Bool(TRUE))>>)}

----------------------------------------------------------------------------
(* The operation Client._req, lines 69-125 *)

\* lines 102-107: the arguments of session.request
Request(m, url, ps, auth, headers) ==
    [method |-> m, url |-> url, params |-> ps, auth |-> auth,
     headers |-> headers]

\* the operations in flight together
OpIds == 1..MaxOps

\* the locals of one call of _req: its arguments, the params object as
\* rewritten, the request it handed to the session, the response r, the body
\* and how it ended
Op(pos, m, pg, g, ps, req, r, b, out) ==
    [pc |-> pos, method |-> m, page |-> pg, given |-> g, params |-> ps,
     request |-> req, resp |-> r, body |-> b, outcome |-> out]

NoRequest == Request("", "", None, BasicAuth(""), Headers(Client("", "")))

IdleOp ==
    Op("idle", "", <<>>, None, Dict(<<>>), NoRequest, NoResponse, None, Pending)

\* the state after Client(session, pk, version) for an argument pair of C
InitWith(C) ==
    /\ \E c \in C :
        /\ made = [pk |-> c[1], version |-> c[2]]
        /\ client = Client(c[1], c[2])
    /\ pc = "idle"
    /\ endpoint = ""
    /\ args = Dict(<<>>)
    /\ held = Dict(<<>>)
    /\ method = ""
    /\ page = <<>>
    /\ given = None
    /\ params = Dict(<<>>)
    /\ flat = Dict(<<>>)
    /\ sent = <<>>
    /\ resp = NoResponse
    /\ reads = 0
    /\ body = None
    /\ outcome = Pending
    /\ ops = [i \in OpIds |-> IdleOp]
    /\ conv_in = None
    /\ conv_out = [state |-> "idle", value |-> None]

Init == InitWith(FewClients)

\* lines 81-102, up to the first suspension point: the parameters are encoded
\* and the request is handed to the session. g is the params argument; a
\* holds the arguments of the caller of endpoint e, and own names the one of
\* them that the params object is ("" when the call made the object itself):
\* lines 91-100 rewrite that object in place.
Req(e, m, pg, g, a, own) ==
    LET start == IF g = None THEN <<>> ELSE g.items
        fl == Flatten(start)
    IN  /\ endpoint' = e
        /\ args' = a
        /\ method' = m
        /\ page' = pg
        /\ given' = g
        /\ flat' = Dict(fl.entries)
        /\ IF fl.ok
           THEN /\ params' = Dict(BoolsToStrings(fl.entries))
                /\ sent' = Append(sent, Request(Upper(m), Url(client, pg), params',
                                                client._auth, Headers(client)))
                /\ pc' = "awaiting_request"
                /\ outcome' = outcome
           ELSE /\ params' = Dict(fl.entries)
                /\ sent' = sent
                /\ pc' = "done"
                /\ outcome' = Raised("AttributeError",
                                     "object has no attribute 'items'")
        /\ held' = IF own = "" THEN a ELSE Dict(SetItem(a.items, own, params'))
        /\ UNCHANGED <<cfgVars, ops, resp, reads, body, convVars>>

\* a call of _req itself with a params object of the caller
Call(M, Pg, P) ==
    /\ pc = "idle"
    /\ \E m \in M, pg \in Pg, g \in P :
        Req("", m, pg, g, Dict(<<E("params", g)>>),
            IF g = None THEN "" ELSE "params")

\* the arguments of a call: the positional ones, then the keyword ones
Args(positional, kwds) == Dict(positional \o kwds.items)

\* line 141
create_charge_params(amount, currency, kwds) ==
    Dict(<<E("amount", amount), E("currency", currency)>> \o kwds.items)

\* lines 288-290
create_card_params(source, metadata) ==
    IF metadata # None
    THEN Dict(<<E("source", source), E("metadata", metadata)>>)
    ELSE Dict(<<E("source", source)>>)

\* dict.update: the entries of more are stored one by one
RECURSIVE Update(_, _)
Update(entries, more) ==
    IF more = <<>> THEN entries
    ELSE Update(SetItem(entries, Head(more).k, Head(more).v), Tail(more))

\* lines 343-344
create_refund_params(charge_id, kwds) ==
    Dict(Update(<<E("charge", charge_id)>>, kwds.items))

\* line 371
update_refund_params(metadata) == Dict(<<E("metadata", metadata)>>)

\* lines 127-142. A keyword argument named like a positional parameter is
\* rejected by the call itself.
create_charge ==
    /\ pc = "idle"
    /\ \E amount \in Amounts, currency \in Currencies, kwds \in Kwds :
        /\ ~HasKey(kwds, "amount") /\ ~HasKey(kwds, "currency")
        /\ Req("create_charge", "post", <<"/", "charges">>,
               create_charge_params(amount, currency, kwds),
               Args(<<E("amount", amount), E("currency", currency)>>, kwds), "")

\* lines 144-154
retrieve_charge ==
    /\ pc = "idle"
    /\ \E charge_id \in Ids :
        Req("retrieve_charge", "get", <<"/", "charges", "/", PyStr(charge_id)>>,
            None, Args(<<E("charge_id", charge_id)>>, Dict(<<>>)), "")

\* lines 156-172
update_charge ==
    /\ pc = "idle"
    /\ \E charge_id \in Ids, kwds \in Kwds :
        Req("update_charge", "post", <<"/", "charges", "/", PyStr(charge_id)>>,
            kwds, Args(<<E("charge_id", charge_id)>>, kwds), "")

\* a variant of capture_charge that posts to the charge itself
capture_charge_NoSuffix ==
    /\ pc = "idle"
    /\ \E charge_id \in Ids, kwds \in Kwds :
        Req("capture_charge", "post", <<"/", "charges", "/", PyStr(charge_id)>>,
            kwds, Args(<<E("charge_id", charge_id)>>, kwds), "")

\* lines 174-190
capture_charge ==
    /\ pc = "idle"
    /\ \E charge_id \in Ids, kwds \in Kwds :
        Req("capture_charge", "post",
            <<"/", "charges", "/", PyStr(charge_id), "/", "capture">>,
            kwds, Args(<<E("charge_id", charge_id)>>, kwds), "")

\* lines 192-205
list_charges ==
    /\ pc = "idle"
    /\ \E kwds \in Kwds :
        Req("list_charges", "get", <<"/", "charges">>, kwds, Args(<<>>, kwds), "")

\* lines 207-219
create_customer ==
    /\ pc = "idle"
    /\ \E kwds \in Kwds :
        Req("create_customer", "post", <<"/", "customers">>, kwds,
            Args(<<>>, kwds), "")

\* lines 221-231
retrieve_customer ==
    /\ pc = "idle"
    /\ \E customer_id \in Ids :
        Req("retrieve_customer", "get",
            <<"/", "customers", "/", PyStr(customer_id)>>,
            None, Args(<<E("customer_id", customer_id)>>, Dict(<<>>)), "")

\* lines 233-249
update_customer ==
    /\ pc = "idle"
    /\ \E customer_id \in Ids, kwds \in Kwds :
        Req("update_customer", "post",
            <<"/", "customers", "/", PyStr(customer_id)>>,
            kwds, Args(<<E("customer_id", customer_id)>>, kwds), "")

\* lines 251-259
delete_customer ==
    /\ pc = "idle"
    /\ \E customer_id \in Ids :
        Req("delete_customer", "delete",
            <<"/", "customers", "/", PyStr(customer_id)>>,
            None, Args(<<E("customer_id", customer_id)>>, Dict(<<>>)), "")

\* lines 261-274
list_customers ==
    /\ pc = "idle"
    /\ \E kwds \in Kwds :
        Req("list_customers", "get", <<"/", "customers">>, kwds,
            Args(<<>>, kwds), "")

\* lines 276-295
create_card ==
    /\ pc = "idle"
    /\ \E customer_id \in Ids, source \in Sources, metadata \in Metadatas :
        Req("create_card", "post",
            <<"/", "customers", "/", PyStr(customer_id), "/", "sources">>,
            create_card_params(source, metadata),
            Args(<<E("customer_id", customer_id), E("source", source),
                   E("metadata", metadata)>>, Dict(<<>>)), "")

\* lines 297-309
delete_card ==
    /\ pc = "idle"
    /\ \E customer_id \in Ids, source_id \in Ids :
        Req("delete_card", "delete",
            <<"/", "customers", "/", PyStr(customer_id), "/", "sources", "/",
              PyStr(source_id)>>,
            None,
            Args(<<E("customer_id", customer_id), E("source_id", source_id)>>,
                 Dict(<<>>)), "")

\* lines 311-328
update_card ==
    /\ pc = "idle"
    /\ \E customer_id \in Ids, source_id \in Ids, kwds \in Kwds :
        Req("update_card", "post",
            <<"/", "customers", "/", PyStr(customer_id), "/", "sources", "/",
              PyStr(source_id)>>,
            kwds,
            Args(<<E("customer_id", customer_id), E("source_id", source_id)>>,
                 kwds), "")

\* lines 330-345
create_refund ==
    /\ pc = "idle"
    /\ \E charge_id \in Ids, kwds \in Kwds :
        Req("create_refund", "post", <<"/", "refunds">>,
            create_refund_params(charge_id, kwds),
            Args(<<E("charge_id", charge_id)>>, kwds), "")

\* lines 347-357
retrieve_refund ==
    /\ pc = "idle"
    /\ \E refund_id \in Ids :
        Req("retrieve_refund", "get", <<"/", "refunds", "/", PyStr(refund_id)>>,
            None, Args(<<E("refund_id", refund_id)>>, Dict(<<>>)), "")

\* a variant of update_refund that hands the caller's metadata mapping to
\* _req as the params object
update_refund_SharesMetadata ==
    /\ pc = "idle"
    /\ \E refund_id \in Ids, metadata \in Metadatas :
        Req("update_refund", "post", <<"/", "refunds", "/", PyStr(refund_id)>>,
            metadata,
            Args(<<E("refund_id", refund_id), E("metadata", metadata)>>,
                 Dict(<<>>)),
            IF metadata = None THEN "" ELSE "metadata")

\* lines 359-372
update_refund ==
    /\ pc = "idle"
    /\ \E refund_id \in Ids, metadata \in Metadatas :
        Req("update_refund", "post", <<"/", "refunds", "/", PyStr(refund_id)>>,
            update_refund_params(metadata),
            Args(<<E("refund_id", refund_id), E("metadata", metadata)>>,
                 Dict(<<>>)), "")

\* lines 374-386
list_refunds ==
    /\ pc = "idle"
    /\ \E kwds \in Kwds :
        Req("list_refunds", "get", <<"/", "refunds">>, kwds, Args(<<>>, kwds), "")

\* lines 388-401
create_source ==
    /\ pc = "idle"
    /\ \E kwds \in Kwds :
        Req("create_source", "post", <<"/", "sources">>, kwds,
            Args(<<>>, kwds), "")

\* lines 403-414
retrieve_source ==
    /\ pc = "idle"
    /\ \E source_id \in Ids :
        Req("retrieve_source", "get", <<"/", "sources", "/", PyStr(source_id)>>,
            None, Args(<<E("source_id", source_id)>>, Dict(<<>>)), "")

\* line 102: the awaited request yields a response
RequestCompletes(R) ==
    /\ pc = "awaiting_request"
    /\ \E r \in R : resp' = r
    /\ pc' = "awaiting_body"
    /\ UNCHANGED <<cfgVars, ops, callVars, sent, reads, body, outcome, convVars>>

\* line 102: the transport raises instead
RequestFails ==
    /\ pc = "awaiting_request"
    /\ pc' = "done"
    /\ outcome' = Raised("TransportError", "request")
    /\ UNCHANGED <<cfgVars, ops, callVars, sent, resp, reads, body, convVars>>

\* lines 109-125: the body is read and the response classified
BodyRead ==
    /\ pc = "awaiting_body"
    /\ body' = IF IsJson(resp.ctype) THEN resp.json ELSE Bytes(resp.raw)
    /\ outcome' = Classify(method, resp.status, body')
    /\ pc' = "done"
    /\ reads' = reads + 1
    /\ UNCHANGED <<cfgVars, ops, callVars, sent, resp, convVars>>

\* lines 110, 112: reading or decoding the body raises in the transport
BodyReadFails ==
    /\ pc = "awaiting_body"
    /\ pc' = "done"
    /\ outcome' = Raised("TransportError", "body")
    /\ reads' = reads + 1
    /\ UNCHANGED <<cfgVars, ops, callVars, sent, resp, body, convVars>>

\* lines 81-102 of operation i, with other operations in flight
OpCall(i, M, Pg, P) ==
    /\ ops[i].pc = "idle"
    /\ \E m \in M, pg \in Pg, g \in P :
        LET start == IF g = None THEN <<>> ELSE g.items
            fl == Flatten(start)
            ps == Dict(BoolsToStrings(fl.entries))
        IN  ops' = [ops EXCEPT ![i] =
                IF fl.ok
                THEN Op("awaiting_request", m, pg, g, ps,
                        Request(Upper(m), Url(client, pg), ps, client._auth,
                                Headers(client)),
                        NoResponse, None, Pending)
                ELSE Op("done", m, pg, g, Dict(fl.entries), NoRequest,
                        NoResponse, None,
                        Raised("AttributeError",
                               "object has no attribute 'items'"))]
    /\ UNCHANGED <<cfgVars, reqVars, convVars>>

\* line 102 of operation i: its awaited request yields a response
OpRequestCompletes(i, R) ==
    /\ ops[i].pc = "awaiting_request"
    /\ \E r \in R :
        ops' = [ops EXCEPT ![i].resp = r, ![i].pc = "awaiting_body"]
    /\ UNCHANGED <<cfgVars, reqVars, convVars>>

\* line 102 of operation i: the transport raises instead
OpRequestFails(i) ==
    /\ ops[i].pc = "awaiting_request"
    /\ ops' = [ops EXCEPT ![i].pc = "done",
                          ![i].outcome = Raised("TransportError", "request")]
    /\ UNCHANGED <<cfgVars, reqVars, convVars>>

\* a variant of OpBodyRead that reads the body of whichever response came in
OpBodyRead_AnyResponse(i) ==
    /\ ops[i].pc = "awaiting_body"
    /\ \E j \in OpIds :
        /\ ops[j].resp # NoResponse
        /\ LET r == ops[j].resp
               b == IF IsJson(r.ctype) THEN r.json ELSE Bytes(r.raw)
           IN  ops' = [ops EXCEPT
                        ![i].body = b,
                        ![i].outcome = Classify(ops[i].method, r.status, b),
                        ![i].pc = "done"]
    /\ UNCHANGED <<cfgVars, reqVars, convVars>>

\* lines 109-125 of operation i: the body of its response r is read and the
\* response classified
OpBodyRead(i) ==
    /\ ops[i].pc = "awaiting_body"
    /\ LET r == ops[i].resp
           b == IF IsJson(r.ctype) THEN r.json ELSE Bytes(r.raw)
       IN  ops' = [ops EXCEPT
                    ![i].body = b,
                    ![i].outcome = Classify(ops[i].method, r.status, b),
                    ![i].pc = "done"]
    /\ UNCHANGED <<cfgVars, reqVars, convVars>>

\* lines 110, 112 of operation i: reading the body raises in the transport
OpBodyReadFails(i) ==
    /\ ops[i].pc = "awaiting_body"
    /\ ops' = [ops EXCEPT ![i].pc = "done",
                          ![i].outcome = Raised("TransportError", "body")]
    /\ UNCHANGED <<cfgVars, reqVars, convVars>>

\* a direct call of convert_json_response
Convert(V) ==
    /\ conv_out.state = "idle"
    /\ \E x \in V :
        /\ conv_in' = x
        /\ conv_out' = IF ConvertError(x) # ""
                       THEN [state |-> ConvertError(x), value |-> None]
                       ELSE [state |-> "returned",
                             value |-> convert_json_response(x)]
    /\ UNCHANGED <<cfgVars, ops, reqVars>>

\* operations on the responses the provider and its proxies can send
Next ==
    \/ Call(Methods, FewPages, FewParams)
    \/ RequestCompletes(Responses)
    \/ RequestFails
    \/ BodyRead
    \/ BodyReadFails

Spec == Init /\ [][Next]_vars

\* operations on the parameter mappings callers can pass
NextEncode ==
    \/ Call(Methods, FewPages, ParamMappings)
    \/ RequestCompletes(FewResponses)
    \/ RequestFails
    \/ BodyRead
    \/ BodyReadFails

SpecEncode == Init /\ [][NextEncode]_vars

\* calls of the endpoint methods on clients of any configuration
NextEndpoints ==
    \/ create_charge
    \/ retrieve_charge
    \/ update_charge
    \/ capture_charge
    \/ list_charges
    \/ create_customer
    \/ retrieve_customer
    \/ update_customer
    \/ delete_customer
    \/ list_customers
    \/ create_card
    \/ delete_card
    \/ update_card
    \/ create_refund
    \/ retrieve_refund
    \/ update_refund
    \/ list_refunds
    \/ create_source
    \/ retrieve_source
    \/ RequestCompletes(EndpointResponses)
    \/ RequestFails
    \/ BodyRead
    \/ BodyReadFails

SpecEndpoints == InitWith(Clients) /\ [][NextEndpoints]_vars

\* operations in flight together on one client, each stepping at its own
\* suspension points
NextConcurrent ==
    \E i \in OpIds :
        \/ OpCall(i, ConcurrentMethods, FewPages, ConcurrentParams)
        \/ OpRequestCompletes(i, ConcurrentResponses)
        \/ OpRequestFails(i)
        \/ OpBodyRead(i)
        \/ OpBodyReadFails(i)

SpecConcurrent == InitWith(FewClients) /\ [][NextConcurrent]_vars

\* calls of the normalization function on JSON values
NextConvert == Convert(JsonValues \cup OddBodies)

SpecConvert == Init /\ [][NextConvert]_vars


----------------------------------------------------------------------------
(* Properties of the classification of a response *)

\* the value at key of mapping d; None when d has no such key
At(d, key) ==
    IF \E i \in 1..Len(d.items) : d.items[i].k = key
    THEN d.items[CHOOSE i \in 1..Len(d.items) : d.items[i].k = key].v
    ELSE None

Has(d, key) == \E i \in 1..Len(d.items) : d.items[i].k = key

\* y is x with every list envelope replaced by the sequence of its `data`
\* elements, inside sequences and envelopes at any depth, and nothing else
\* changed
RECURSIVE Unwraps(_, _)
Unwraps(x, y) ==
    IF x.t = "list"
    THEN /\ y.t = "list"
         /\ Len(y.items) = Len(x.items)
         /\ \A i \in 1..Len(x.items) : Unwraps(x.items[i].v, y.items[i].v)
    ELSE IF x.t = "dict" /\ At(x, "object") = Str("list")
    THEN /\ y.t = "list"
         /\ Len(y.items) = Len(At(x, "data").items)
         /\ \A i \in 1..Len(y.items) :
                Unwraps(At(x, "data").items[i].v, y.items[i].v)
    ELSE y = x

\* the operation read the body of a response and classified it
Classified == pc = "done" /\ resp # NoResponse /\ outcome.kind # "TransportError"

IsDelete == Upper(method) = "DELETE"

\* C1: for every method and every body, a response whose status is not 200
\* fails with a StripeError carrying that status: never a deletion error, a
\* parse error, a returned value or any other failure.
C1_Non200IsStripeError ==
    Classified /\ resp.status # "200"
        => outcome.kind = "StripeError" /\ outcome.http_code = resp.status

\* C2: a non-DELETE operation that receives status 200 fails with a
\* ParseError citing the body when the body is no mapping with an `object`
\* field, and otherwise returns the normalized body.
C2_ParseErrorOrNormalized ==
    Classified /\ resp.status = "200" /\ ~IsDelete
        => IF body.t = "dict" /\ HasKey(body, "object")
           THEN outcome.kind = "returned" /\ Unwraps(body, outcome.value)
           ELSE outcome.kind = "ParseError" /\ outcome.value = body

\* C3: a DELETE that receives status 200 returns nothing when `deleted` is
\* true, and otherwise (absent or false) fails with a DeletionError naming the
\* body's `id`, None when `id` is absent; it never returns a body and never
\* fails with a ParseError.
C3_DeleteOutcome ==
    Classified /\ resp.status = "200" /\ IsDelete
        => LET isMap == body.t = "dict"
               deleted == isMap /\ DictGet(body, "deleted", Bool(FALSE)) = Bool(TRUE)
               id == IF isMap THEN DictGet(body, "id", None) ELSE None
           IN  IF deleted
               THEN outcome = Returned(None)
               ELSE /\ outcome.kind = "DeletionError"
                    /\ outcome.message = "Failed to delete " \o id.s

\* C4: every operation ends by returning a value (nothing, for a deletion) or
\* with exactly one of provider error, deletion error, parse error and
\* transport error; no other failure comes out of it.
C4_OnlyListedOutcomes ==
    pc = "done"
        => outcome.kind \in {"returned", "StripeError", "DeletionError",
                             "ParseError", "TransportError"}

\* C10: for a non-200 response whose body is a mapping with an `error`
\* mapping (one without entries included), the six fields of the provider
\* error equal the entries of that mapping, "" for a missing entry, and
\* http_code equals the status.
C10_ErrorFieldsFromErrorMapping ==
    (/\ Classified
     /\ resp.status # "200"
     /\ body.t = "dict"
     /\ DictGet(body, "error", None).t = "dict")
        => LET err == DictGet(body, "error", None)
           IN  /\ outcome.kind = "StripeError"
               /\ outcome.http_code = resp.status
               /\ \A i \in 1..Len(ErrorKeys) :
                    LET want == IF \E j \in 1..Len(err.items) :
                                        err.items[j].k = ErrorKeys[i]
                                THEN err.items[CHOOSE j \in 1..Len(err.items) :
                                        err.items[j].k = ErrorKeys[i]].v
                                ELSE Str("")
                        got == CASE i = 1 -> outcome.fields.type
                                 [] i = 2 -> outcome.fields.charge
                                 [] i = 3 -> outcome.fields.message
                                 [] i = 4 -> outcome.fields.code
                                 [] i = 5 -> outcome.fields.decline_code
                                 [] OTHER -> outcome.fields.param
                    IN  got = want

\* the body holds an `error` mapping
HasErrorMapping(b) == b.t = "dict" /\ DictGet(b, "error", None).t = "dict"

\* C11: a non-200 response whose body has no `error` mapping (a mapping
\* without `error`, a mapping whose `error` entry is no mapping, or a body
\* that is no mapping, raw bytes included) still fails with a provider error
\* whose six fields are all absent and whose http_code is the status; no other
\* error comes out of building the provider error.
C11_NoErrorMappingStillStripeError ==
    Classified /\ resp.status # "200" /\ ~HasErrorMapping(body)
        => /\ outcome.kind = "StripeError"
           /\ outcome.fields = NoFields
           /\ outcome.http_code = resp.status

\* the part of the summary that shows value v between pre and post, nothing
\* for an empty or absent v
Part(v, pre, post) == IF Truthy(v) THEN pre \o PyStr(v) \o post ELSE ""

\* the summary with the decline code shown after the code and before the
\* parameter name
SummaryWithDecline(status, f) ==
    status \o ":"
        \o Part(f.type, " ", ":")
        \o Part(f.charge, " charge: ", "")
        \o Part(f.message, " message: \"", "\"")
        \o Part(f.code, " code: ", "")
        \o Part(f.decline_code, " decline: ", "")
        \o Part(f.param, " param: ", "")

\* C12: the summary of a provider error shows the decline_code under the
\* label "decline" whenever it is non-empty, after the code and before the
\* param, and leaves the decline part out when decline_code is empty or
\* absent.
C12_SummaryShowsDecline ==
    Classified /\ outcome.kind = "StripeError"
        => outcome.message = SummaryWithDecline(outcome.http_code, outcome.fields)

----------------------------------------------------------------------------
(* Properties of the request *)

UpperCase == [get |-> "GET", post |-> "POST", delete |-> "DELETE"]

\* a page without its leading slash
Unslashed(pg) == IF pg # <<>> /\ Head(pg) = "/" THEN Tail(pg) ELSE pg

\* C13: every request issued through a client, whatever the endpoint and
\* the outcome, carries the upper-cased method, the address base + "/" + the
\* path without its leading slash, the headers Content-Type
\* application/x-www-form-urlencoded and Stripe-Version equal to the version
\* given at construction (the default literal when none was given), and
\* basic-auth credentials with the secret as user name and an empty password.
C13_RequestCarriesConfiguration ==
    \A i \in 1..Len(sent) :
        /\ sent[i].method = UpperCase[method]
        /\ sent[i].url = "https://api.stripe.com/v1" \o "/" \o Join(Unslashed(page))
        /\ sent[i].headers.content_type = "application/x-www-form-urlencoded"
        /\ sent[i].headers.stripe_version =
                (IF made.version = NotGiven THEN "2017-02-14" ELSE made.version)
        /\ sent[i].auth = [login |-> made.pk, password |-> ""]

C13_Witness ==
    /\ pc = "done"
    /\ outcome.kind = "StripeError"
    /\ endpoint = "capture_charge"
    /\ made = [pk |-> "sk_test_1", version |-> LAST_VERSION]
    /\ Len(sent) = 1
    /\ sent[1].method = "POST"
    /\ sent[1].url = "https://api.stripe.com/v1/charges/ch_1/capture"
    /\ sent[1].headers.stripe_version = "2018-11-08"
    /\ sent[1].auth.login = "sk_test_1"

\* the identifier the caller passed under name, as '%s' formats it
IdOf(name) == PyStr(At(args, name))

\* the resource-path table: method and path, relative to the base
PathTable ==
    [create_charge |-> <<"POST", "/charges">>,
     retrieve_charge |-> <<"GET", "/charges/" \o IdOf("charge_id")>>,
     update_charge |-> <<"POST", "/charges/" \o IdOf("charge_id")>>,
     capture_charge |->
        <<"POST", "/charges/" \o IdOf("charge_id") \o "/capture">>,
     list_charges |-> <<"GET", "/charges">>,
     create_customer |-> <<"POST", "/customers">>,
     retrieve_customer |-> <<"GET", "/customers/" \o IdOf("customer_id")>>,
     update_customer |-> <<"POST", "/customers/" \o IdOf("customer_id")>>,
     delete_customer |-> <<"DELETE", "/customers/" \o IdOf("customer_id")>>,
     list_customers |-> <<"GET", "/customers">>,
     create_card |->
        <<"POST", "/customers/" \o IdOf("customer_id") \o "/sources">>,
     delete_card |->
        <<"DELETE", "/customers/" \o IdOf("customer_id") \o "/sources/"
                        \o IdOf("source_id")>>,
     update_card |->
        <<"POST", "/customers/" \o IdOf("customer_id") \o "/sources/"
                        \o IdOf("source_id")>>,
     create_refund |-> <<"POST", "/refunds">>,
     retrieve_refund |-> <<"GET", "/refunds/" \o IdOf("refund_id")>>,
     update_refund |-> <<"POST", "/refunds/" \o IdOf("refund_id")>>,
     list_refunds |-> <<"GET", "/refunds">>,
     create_source |-> <<"POST", "/sources">>,
     retrieve_source |-> <<"GET", "/sources/" \o IdOf("source_id")>>]

SendsNoParams ==
    {"retrieve_charge", "retrieve_customer", "delete_customer", "delete_card",
     "retrieve_refund", "retrieve_source"}

\* C14: each endpoint method issues the method and the path of the
\* resource-path table with the identifiers it was given substituted, and
\* the retrieve and delete methods send an empty parameter set.
C14_EndpointsFollowPathTable ==
    \A i \in 1..Len(sent) :
        /\ endpoint \in DOMAIN PathTable
        /\ sent[i].method = PathTable[endpoint][1]
        /\ sent[i].url = "https://api.stripe.com/v1" \o PathTable[endpoint][2]
        /\ endpoint \in SendsNoParams => sent[i].params = Dict(<<>>)

C14_Witness ==
    /\ endpoint = "delete_card"
    /\ args = Dict(<<E("customer_id", Str("ch_1")), E("source_id", Int("7"))>>)
    /\ Len(sent) = 1
    /\ sent[1].method = "DELETE"
    /\ sent[1].url = "https://api.stripe.com/v1/customers/ch_1/sources/7"
    /\ sent[1].params = Dict(<<>>)
    /\ outcome = Returned(None)
    /\ pc = "done"

\* C15: one operation issues exactly one request and asks for the body of
\* the response at most once, whatever its outcome: no second request follows
\* a provider, deletion, parse or transport error, and the operation ends
\* with that error as its outcome.
C15_OneRequestNoRetry ==
    /\ Len(sent) <= 1
    /\ reads <= 1
    /\ pc = "done" => Len(sent) = 1 /\ outcome.kind # "pending"

\* the request an operation hands to the session when it runs alone with
\* method m, page pg and params g on client c
AloneRequest(c, m, pg, g) ==
    Request(Upper(m), Url(c, pg),
            Dict(BoolsToStrings(Flatten(IF g = None THEN <<>> ELSE g.items).entries)),
            c._auth, Headers(c))

\* the outcome of an operation that runs alone with method m and gets
\* response r
AloneOutcome(m, r) ==
    Classify(m, r.status, IF IsJson(r.ctype) THEN r.json ELSE Bytes(r.raw))

\* C16: with operations in flight together on one client, interleaved at
\* their suspension points in any order, the request of each operation and
\* its outcome are those it has when it runs alone with its own arguments
\* and its own response, and the secret, base address and version of the
\* client stay as constructed.
C16_OperationsIndependent ==
    /\ client = Client(made.pk, made.version)
    /\ \A i \in OpIds :
        /\ ops[i].request # NoRequest
            => ops[i].request
                = AloneRequest(Client(made.pk, made.version), ops[i].method,
                               ops[i].page, ops[i].given)
        /\ ops[i].pc = "done" /\ ops[i].resp # NoResponse
                /\ ops[i].outcome.kind # "TransportError"
            => ops[i].outcome = AloneOutcome(ops[i].method, ops[i].resp)

C16_Witness ==
    /\ ops[1].pc = "done"
    /\ ops[1].method = "delete"
    /\ ops[1].outcome = Returned(None)
    /\ ops[2].pc = "awaiting_body"
    /\ ops[2].method = "post"
    /\ ops[2].request.params = Dict(<<E("metadata[a]", Str("true"))>>)
    /\ ops[2].resp.status = "404"

----------------------------------------------------------------------------
(* Properties of the parameter encoding *)

\* a request was handed to the transport for a params mapping of the caller
Encoded == sent # <<>> /\ given # None

SentParams == sent[1].params

Name(key, subkey) == key \o "[" \o subkey \o "]"

\* the names flattening makes from the nested mappings of d
MadeNames(d) ==
    UNION {{Name(d.items[i].k, d.items[i].v.items[j].k) :
                j \in 1..Len(d.items[i].v.items)} :
           i \in {i \in 1..Len(d.items) : d.items[i].v.t = "dict"}}

\* the keys of the nested mappings of d
MappingKeys(d) == {d.items[i].k : i \in {i \in 1..Len(d.items) : d.items[i].v.t = "dict"}}

\* no two inner entries of the nested mappings of d are given the same name
\* by flattening
MadeNamesDistinct(d) ==
    \A i1, i2 \in {i \in 1..Len(d.items) : d.items[i].v.t = "dict"} :
        \A j1 \in 1..Len(d.items[i1].v.items) :
            \A j2 \in 1..Len(d.items[i2].v.items) :
                <<i1, j1>> # <<i2, j2>>
                    => Name(d.items[i1].k, d.items[i1].v.items[j1].k)
                        # Name(d.items[i2].k, d.items[i2].v.items[j2].k)

\* no nested mapping of d is stored under a name that flattening makes, and
\* flattening makes no name twice
NoMappingUnderMadeName(d) ==
    MappingKeys(d) \cap MadeNames(d) = {} /\ MadeNamesDistinct(d)

\* a boolean as the strings "true" and "false", any other value as it is
AsSent(v) ==
    IF v.t = "bool"
    THEN (IF v = Bool(TRUE) THEN Str("true") ELSE Str("false"))
    ELSE v

\* C5 as stated: a nested mapping under k with inner keys a, b is replaced by
\* k[a] and k[b] holding the inner values unchanged, k is gone, and every
\* top-level entry that was no mapping is still present.
C5_AsStated ==
    Encoded =>
        \A i \in 1..Len(given.items) :
            LET e == given.items[i]
            IN  IF e.v.t = "dict"
                THEN /\ ~Has(SentParams, e.k)
                     /\ \A j \in 1..Len(e.v.items) :
                            /\ Has(SentParams, Name(e.k, e.v.items[j].k))
                            /\ At(SentParams, Name(e.k, e.v.items[j].k))
                                    = e.v.items[j].v
                ELSE Has(SentParams, e.k)

\* C5 amended: when no nested mapping is stored under a name flattening
\* makes and flattening makes no name twice, a nested mapping under k with
\* inner keys a, b is replaced by k[a]
\* and k[b], k is gone, the inner values are unchanged except that a boolean
\* inner value is sent as "true" or "false", and every top-level key that
\* held no mapping is still present.
C5_Flattened ==
    Encoded /\ NoMappingUnderMadeName(given) =>
        \A i \in 1..Len(given.items) :
            LET e == given.items[i]
            IN  IF e.v.t = "dict"
                THEN /\ ~Has(SentParams, e.k)
                     /\ \A j \in 1..Len(e.v.items) :
                            /\ Has(SentParams, Name(e.k, e.v.items[j].k))
                            /\ At(SentParams, Name(e.k, e.v.items[j].k))
                                    = AsSent(e.v.items[j].v)
                ELSE Has(SentParams, e.k)

C5_Witness ==
    /\ pc = "awaiting_request"
    /\ given = Dict(<<E("k", Dict(<<E("a", Bool(FALSE)), E("b", Int("1"))>>)),
                      E("f", Str("usd"))>>)
    /\ SentParams = Dict(<<E("f", Str("usd")), E("k[a]", Str("false")),
                           E("k[b]", Int("1"))>>)

NoBooleanSent ==
    \A i \in 1..Len(SentParams.items) : SentParams.items[i].v.t # "bool"

NoMappingSent ==
    \A i \in 1..Len(SentParams.items) : SentParams.items[i].v.t # "dict"

\* no nested mapping of d holds a mapping itself
NoMappingInMapping(d) ==
    \A i \in 1..Len(d.items) :
        \A j \in 1..Len(d.items[i].v.items) :
            d.items[i].v.t = "dict" => d.items[i].v.items[j].v.t # "dict"

\* C7 as stated: the parameters handed to the transport hold no nested
\* mapping and no boolean.
C7_AsStated == Encoded => NoBooleanSent /\ NoMappingSent

\* C7 amended: the parameters handed to the transport hold no boolean, and
\* hold no nested mapping provided no nested mapping of the input holds a
\* mapping itself (such a mapping is passed through as it is).
C7_FlatOutput ==
    Encoded => NoBooleanSent /\ (NoMappingInMapping(given) => NoMappingSent)

C7_Witness ==
    /\ pc = "awaiting_request"
    /\ given = Dict(<<E("f", Dict(<<E("a", Int("1")), E("b", Bool(FALSE))>>)),
                      E("k", Dict(<<E("a", Bool(FALSE))>>))>>)
    /\ NoBooleanSent
    /\ NoMappingSent

\* the entries the encoded result is to hold for d: <<i, 0>> for a top-level
\* entry i that is no mapping, <<i, j>> for inner entry j of nested mapping i
Slots(d) ==
    {<<i, 0>> : i \in {i \in 1..Len(d.items) : d.items[i].v.t # "dict"}}
        \cup UNION {{<<i, j>> : j \in 1..Len(d.items[i].v.items)} :
                    i \in {i \in 1..Len(d.items) : d.items[i].v.t = "dict"}}

SlotKey(d, sl) ==
    IF sl[2] = 0 THEN d.items[sl[1]].k
    ELSE Name(d.items[sl[1]].k, d.items[sl[1]].v.items[sl[2]].k)

SlotValue(d, sl) ==
    IF sl[2] = 0 THEN d.items[sl[1]].v ELSE d.items[sl[1]].v.items[sl[2]].v

\* the top-level keys of d and the names flattening makes from its nested
\* mappings are pairwise distinct
CollisionFree(d) ==
    MadeNames(d) \cap KeysOf(d) = {} /\ MadeNamesDistinct(d)

\* C17 as stated: for every params mapping the operation encodes it, and
\* the encoded result has exactly one entry for each top-level entry that is
\* no mapping
\* and one entry k[a] for each inner entry a of each nested mapping k, each
\* with its own value (a boolean as "true" or "false"): no entry is lost,
\* also when the input has a top-level key that is itself named k[a].
C17_NoEntryLost ==
    pc # "idle" /\ given # None =>
        /\ sent # <<>>
        /\ Len(SentParams.items) = Cardinality(Slots(given))
        /\ \A sl \in Slots(given) :
                /\ Has(SentParams, SlotKey(given, sl))
                /\ At(SentParams, SlotKey(given, sl))
                        = AsSent(SlotValue(given, sl))

\* C17 amended: the keys of the params mapping are unique after flattening
\* for every input; when the top-level keys and the names k[a] made from the
\* nested mappings are pairwise distinct, no entry is lost: the encoded
\* result has exactly one entry for each top-level entry that is no mapping
\* and one entry k[a] for each inner entry, each with its own value (a
\* boolean as "true" or "false"), also when a top-level key is itself
\* spelled like a made name, k[a].
C17_NoEntryLostWithoutCollision ==
    pc # "idle" /\ given # None =>
        /\ \A i, j \in 1..Len(params.items) :
                params.items[i].k = params.items[j].k => i = j
        /\ CollisionFree(given) =>
                /\ sent # <<>>
                /\ Len(SentParams.items) = Cardinality(Slots(given))
                /\ \A sl \in Slots(given) :
                        /\ Has(SentParams, SlotKey(given, sl))
                        /\ At(SentParams, SlotKey(given, sl))
                                = AsSent(SlotValue(given, sl))

C17_Witness ==
    /\ pc = "awaiting_request"
    /\ given = Dict(<<E("k[a]", Int("1")),
                      E("f", Dict(<<E("a", Bool(FALSE)), E("b", Int("1"))>>))>>)
    /\ SentParams = Dict(<<E("k[a]", Int("1")), E("f[a]", Str("false")),
                           E("f[b]", Int("1"))>>)

\* in the request, every mapping m held by a nested mapping k of d under an
\* inner key a is the value of k[a], as it is, and no key k[a][z] is made
\* from an entry z of m
InnerMappingsPassThrough(d) ==
    \A i \in 1..Len(d.items) :
        \A j \in 1..Len(d.items[i].v.items) :
            LET m == d.items[i].v.items[j].v
                ka == Name(d.items[i].k, d.items[i].v.items[j].k)
            IN  d.items[i].v.t = "dict" /\ m.t = "dict"
                    => /\ Has(SentParams, ka)
                       /\ At(SentParams, ka) = m
                       /\ \A z \in 1..Len(m.items) :
                            ~Has(SentParams, Name(ka, m.items[z].k))

RefundKwds == Dict(Tail(args.items))

\* C19: for every charge id c and all keyword arguments K, the request
\* create_refund(c, **K) issues is POST /refunds with parameters that hold
\* `charge` = c and the encoded entries of K: the charge sent is always the
\* one passed by position.
C19_RefundSendsPositionalCharge ==
    endpoint = "create_refund" /\ sent # <<>> =>
        /\ Len(sent) = 1
        /\ sent[1].method = "POST"
        /\ sent[1].url = "https://api.stripe.com/v1/refunds"
        /\ At(SentParams, "charge") = At(args, "charge_id")
        /\ \A sl \in Slots(RefundKwds) :
                /\ Has(SentParams, SlotKey(RefundKwds, sl))
                /\ SlotKey(RefundKwds, sl) # "charge"
                    => At(SentParams, SlotKey(RefundKwds, sl))
                            = AsSent(SlotValue(RefundKwds, sl))

\* C20: no endpoint method modifies a mapping of its caller: after a call,
\* whether it returned or failed, every argument the caller passed (the
\* metadata and source of create_card, the metadata of update_refund, a
\* mapping passed as a keyword value) has the keys and values it had before;
\* flattening and boolean conversion rewrite a mapping the call made itself.
C20_CallerMappingsUnchanged ==
    endpoint # "" => held = args

C20_Witness ==
    /\ endpoint = "create_card"
    /\ pc = "done"
    /\ outcome.kind = "StripeError"
    /\ args = Dict(<<E("customer_id", Str("ch_1")),
                     E("source", Dict(<<E("object", Str("card")),
                                        E("number", Str("4242"))>>)),
                     E("metadata", Dict(<<E("a", Bool(TRUE))>>))>>)
    /\ held = args
    /\ given = Dict(<<E("source", At(args, "source")),
                      E("metadata", At(args, "metadata"))>>)
    /\ params = Dict(<<E("source[object]", Str("card")),
                       E("source[number]", Str("4242")),
                       E("metadata[a]", Str("true"))>>)

----------------------------------------------------------------------------
(* Properties of the response normalization *)

\* C8: normalizing a list envelope yields the sequence of its normalized
\* `data` elements without the envelope's other fields; normalizing a
\* sequence yields the normalized elements in the same order and number, so
\* envelopes inside sequences are unwrapped at any depth.
C8_EnvelopesUnwrapped ==
    conv_out.state = "returned" /\ conv_in \in JsonValues
        => Unwraps(conv_in, conv_out.value)

C8_Witness ==
    /\ conv_in = List(<<Envelope(<<Envelope(<<Charge>>)>>)>>)
    /\ conv_out = [state |-> "returned",
                   value |-> List(<<List(<<List(<<Charge>>)>>)>>)]

\* a resource object that is no list envelope
IsResource(x) == x.t = "dict" /\ At(x, "object") # Str("list")

\* C9: normalizing a resource object that is no list envelope returns it
\* unchanged, a list envelope in one of its fields included, and normalizing
\* a normalized value changes nothing.
C9_ResourceUnchangedIdempotent ==
    conv_out.state = "returned"
        => /\ IsResource(conv_in) => conv_out.value = conv_in
           /\ ConvertError(conv_out.value) = ""
           /\ convert_json_response(conv_out.value) = conv_out.value

C9_Witness ==
    /\ conv_in = Customer
    /\ conv_out = [state |-> "returned", value |-> Customer]


====
